---------------------------- MODULE Spec2Model ----------------------------
(***************************************************************************)
(* Model of tools/extract_edisks/src/main.rs: the EDisk extractor.         *)
(*                                                                         *)
(* The program reads a ROM image, probes it at a 64 KiB stride for EDisk   *)
(* headers, reads the block table of every header found, decodes each      *)
(* block (mode 0: negated raw, mode 1: "Unpackbits", mode 2: bit-packed    *)
(* dictionary) and writes the concatenated blocks to one file per disk.    *)
(*                                                                         *)
(* A Rust panic (failed assert_eq!, slice index out of range, unwrap of    *)
(* None, the explicit panic! on an unknown mode) ends the run: pc becomes  *)
(* "panicked" and err names the panic.                                     *)
(***************************************************************************)
EXTENDS Integers, Sequences, FiniteSets, TLC

VARIABLES
    scen,           \* the input the ROM was built from (never changes)
    data,           \* main: the ROM image read by fs::read (never changes)
    pc,             \* where the run is: scan, block, unpack, expand, done, panicked
    err,            \* which panic ended the run ("" while running)
    offset,         \* main: the candidate offset (try_extract's location)
    blocks,         \* try_extract: the block table entries
    data_offset,    \* try_extract: the header's data region offset
    idx,            \* extract_disk: index of the next table entry
    disk,           \* extract_disk: the image so far
    mode,           \* extract_disk: mode of the entry being decoded
    block_offset,   \* extract_disk: resolved offset of the entry being decoded
    v,              \* extract_block: the block being built / last returned
    sidx,           \* extract_block, mode 1: index into storage
    bit_index,      \* BitStream: the bit cursor
    reported,       \* the last "complete at" offset printed
    files           \* the file system: location -> image written

vars == <<scen, data, pc, err, offset, blocks, data_offset, idx, disk, mode,
          block_offset, v, sidx, bit_index, reported, files>>

-----------------------------------------------------------------------------
(* Program constants.                                                      *)

\* "EDisk Gary D"
EDISK_MAGIC == <<69, 68, 105, 115, 107, 32, 71, 97, 114, 121, 32, 68>>

\* Disks are on a 64K boundary (0x10000).
Stride == 65536

\* The header window, &mem[location..][..512].
HeaderLen == 512

\* The length a block is decoded to, and the unit of disk_len.
BlockLen == 512

\* 0x00800000 and 0x01000000 of the 24-bit offset.
SignBit == 8388608
Wrap24 == 16777216

-----------------------------------------------------------------------------
(* The ROM: a byte array of length len.  Only the bytes of segs are kept,  *)
(* segs maps the address of a segment to its bytes; every other byte of    *)
(* the array is zero.                                                      *)

MemAt(mem, a) ==
    LET S == {s \in DOMAIN mem.segs : s <= a /\ a < s + Len(mem.segs[s])}
    IN  IF S = {} THEN 0 ELSE LET s == CHOOSE s \in S : TRUE
                              IN  mem.segs[s][a - s + 1]

\* Whether index a of the array exists: mem[a] panics otherwise.
InBounds(mem, a) == a >= 0 /\ a < mem.len

\* read_long(&mem[base..], addr)
read_long(mem, base, addr) ==
      MemAt(mem, base + addr) * 16777216
    + MemAt(mem, base + addr + 1) * 65536
    + MemAt(mem, base + addr + 2) * 256
    + MemAt(mem, base + addr + 3)

\* read_word(&mem[base..], addr)
read_word(mem, base, addr) ==
    MemAt(mem, base + addr) * 256 + MemAt(mem, base + addr + 1)

\* u8::overflowing_neg().0
overflowing_neg(x) == (256 - x) % 256

-----------------------------------------------------------------------------
(* BitStream over &storage[16..]; data_start is the address of its byte 0. *)

\* A variant of bit that counts bits from the lowest (used to test C8).
bitLsbFirst(mem, data_start, bi) ==
    LET byte_index == bi \div 8
        bit_num == bi % 8
        byte == MemAt(mem, data_start + byte_index)
    IN  (byte \div (2 ^ bit_num)) % 2

\* BitStream::bit: the bit at cursor bi (the caller advances the cursor).
bit(mem, data_start, bi) ==
    LET byte_index == bi \div 8
        bit_num == bi % 8
        byte == MemAt(mem, data_start + byte_index)
    IN  (byte \div (2 ^ (7 - bit_num))) % 2

\* BitStream::bits: num_bits bits from cursor bi, first bit highest.
RECURSIVE bits(_, _, _, _)
bits(mem, data_start, bi, num_bits) ==
    IF num_bits = 0 THEN 0
    ELSE bits(mem, data_start, bi, num_bits - 1) * 2
         + bit(mem, data_start, bi + num_bits - 1)

\* BitStream::byte_idx
byte_idx(bi) == (bi + 7) \div 8

-----------------------------------------------------------------------------
(* try_extract.                                                            *)

\* &mem[location..][..512] exists (location < len is main's loop guard).
HeaderFits(mem, location) == location + HeaderLen <= mem.len

\* A variant of HeaderMatches that compares 11 bytes (used to test C9).
HeaderMatchesLoose(mem, location) ==
    \A i \in 1..(Len(EDISK_MAGIC) - 1) :
        MemAt(mem, location + 132 + i - 1) = EDISK_MAGIC[i]

\* header[132..][..12] == EDISK_MAGIC
HeaderMatches(mem, location) ==
    \A i \in 1..Len(EDISK_MAGIC) : MemAt(mem, location + 132 + i - 1) = EDISK_MAGIC[i]

block_size_of(mem, location) == read_word(mem, location, 128)
version_of(mem, location) == read_word(mem, location, 130)
table_offset_of(mem, location) == read_long(mem, location, 156)
data_offset_of(mem, location) == read_long(mem, location, 160)
disk_len_of(mem, location) == read_long(mem, location, 144)
num_blocks_of(mem, location) == disk_len_of(mem, location) \div BlockLen

\* The slice &mem[location + table_offset..] exists and holds num_blocks longs.
TableFits(mem, location) ==
    LET table == location + table_offset_of(mem, location)
        n == num_blocks_of(mem, location)
    IN  table <= mem.len /\ (n = 0 \/ table + 4 * n <= mem.len)

\* The panic try_extract ends with at this location, "" when it has none.
HeaderPanic(mem, location) ==
    IF ~HeaderFits(mem, location) THEN "header window out of range"
    ELSE IF ~HeaderMatches(mem, location) THEN ""
    ELSE IF version_of(mem, location) # 1 THEN "This tool only supports version 1"
    ELSE IF block_size_of(mem, location) # 512
         THEN "This tool only supports block size of 512B"
    ELSE IF disk_len_of(mem, location) % 512 # 0
         THEN "Disk length should be in whole blocks"
    ELSE IF ~TableFits(mem, location) THEN "block table out of range"
    ELSE ""

\* (0..num_blocks).map(|i| read_long(block_table, i * 4)).collect()
BlockTable(mem, location) ==
    LET table == location + table_offset_of(mem, location)
    IN  [i \in 1..num_blocks_of(mem, location) |-> read_long(mem, table, (i - 1) * 4)]

\* One iteration of main's loop up to the call of extract_disk.
TryExtract ==
    /\ pc = "scan"
    /\ offset < data.len
    /\ IF HeaderPanic(data, offset) # ""
       THEN /\ pc' = "panicked"
            /\ err' = HeaderPanic(data, offset)
            /\ UNCHANGED <<offset, blocks, data_offset, idx, disk>>
       ELSE IF ~HeaderMatches(data, offset)
       THEN \* return Ok(()); offset += 0x10000
            /\ offset' = offset + Stride
            /\ UNCHANGED <<pc, err, blocks, data_offset, idx, disk>>
       ELSE /\ blocks' = BlockTable(data, offset)
            /\ data_offset' = data_offset_of(data, offset)
            /\ idx' = 0
            /\ disk' = <<>>
            /\ pc' = "block"
            /\ UNCHANGED <<err, offset>>
    /\ UNCHANGED <<scen, data, mode, block_offset, v, sidx, bit_index, reported, files>>

\* main's loop ends: Ok(()).
MainExit ==
    /\ pc = "scan"
    /\ ~(offset < data.len)
    /\ pc' = "done"
    /\ UNCHANGED <<scen, data, err, offset, blocks, data_offset, idx, disk, mode,
                   block_offset, v, sidx, bit_index, reported, files>>

-----------------------------------------------------------------------------
(* extract_disk and extract_block.                                         *)

\* block >> 24
ModeOf(block) == block \div 16777216

\* block & 0x00ffffff
RawOffset(block) == block % 16777216

\* if offset > 0x00800000 { offset -= 0x01000000 }
SignedOffset(raw) == IF raw > SignBit THEN raw - Wrap24 ELSE raw

\* vec![0; 512]
Zeros == [i \in 1..BlockLen |-> 0]

\* storage[..512].iter().map(|x| x.overflowing_neg().0)
Negated(mem, storage) ==
    [i \in 1..BlockLen |-> overflowing_neg(MemAt(mem, storage + i - 1))]

\* The panic extract_block ends with before its decode loop, "" when none.
\* storage is data_base + block_offset.
BlockPanic(mem, storage, m, boff) ==
    IF m = 0 /\ boff = 0 THEN ""
    ELSE IF storage < 0 THEN "checked_add_signed: unwrap on None"
    ELSE IF storage > mem.len THEN "storage out of range"
    ELSE IF m = 0 THEN (IF storage + BlockLen > mem.len
                        THEN "raw block out of range" ELSE "")
    ELSE IF m = 1 THEN ""
    ELSE IF m = 2 THEN (IF storage + 16 > mem.len
                        THEN "lookup table out of range" ELSE "")
    ELSE "Unexpected block mode"

\* Address of storage[0] for the entry being decoded.
Storage == offset + data_offset + block_offset

\* One iteration of extract_disk's loop up to extract_block's decode loop:
\* modes 0 return at once, modes 1 and 2 enter their loop.
BlockStart ==
    /\ pc = "block"
    /\ idx < Len(blocks)
    /\ LET block == blocks[idx + 1]
           m == ModeOf(block)
           boff == SignedOffset(RawOffset(block))
           storage == offset + data_offset + boff
           p == BlockPanic(data, storage, m, boff)
       IN  /\ mode' = m
           /\ block_offset' = boff
           /\ IF p # ""
              THEN /\ pc' = "panicked"
                   /\ err' = p
                   /\ UNCHANGED <<idx, disk, v, sidx, bit_index>>
              ELSE IF m = 0
              THEN /\ v' = (IF boff = 0 THEN Zeros ELSE Negated(data, storage))
                   /\ disk' = disk \o v'
                   /\ idx' = idx + 1
                   /\ UNCHANGED <<pc, err, sidx, bit_index>>
              ELSE IF m = 1
              THEN /\ v' = <<>>
                   /\ sidx' = 0
                   /\ pc' = "unpack"
                   /\ UNCHANGED <<err, idx, disk, bit_index>>
              ELSE /\ v' = <<>>
                   /\ bit_index' = 0
                   /\ pc' = "expand"
                   /\ UNCHANGED <<err, idx, disk, sidx>>
    /\ UNCHANGED <<scen, data, offset, blocks, data_offset, reported, files>>

\* x repeated n times.
Repeat(x, n) == [i \in 1..n |-> x]

\* storage[i .. i + n] as a sequence.
Slice(mem, storage, i, n) == [k \in 1..n |-> MemAt(mem, storage + i + k - 1)]

\* Variants of UnpackIter: a literal run that copies cmd bytes (used to test
\* C6), a repeat run of n copies (C7), a no-op that consumes nothing (C10).
UnpackIterShortLiteral(mem, storage, vv, i) ==
    IF ~InBounds(mem, storage + i) THEN [ok |-> FALSE, v |-> vv, idx |-> i]
    ELSE LET cmd == MemAt(mem, storage + i)
         IN  IF cmd = 128 THEN [ok |-> TRUE, v |-> vv, idx |-> i + 1]
             ELSE IF cmd < 128
             THEN IF cmd > 0 /\ ~InBounds(mem, storage + i + cmd)
                  THEN [ok |-> FALSE, v |-> vv, idx |-> i + 1]
                  ELSE [ok |-> TRUE,
                        v |-> vv \o Slice(mem, storage, i + 1, cmd),
                        idx |-> i + 1 + cmd]
             ELSE LET n == overflowing_neg(cmd)
                  IN  IF ~InBounds(mem, storage + i + 1)
                      THEN [ok |-> FALSE, v |-> vv, idx |-> i + 1]
                      ELSE [ok |-> TRUE,
                            v |-> vv \o Repeat(MemAt(mem, storage + i + 1), n + 1),
                            idx |-> i + 2]

UnpackIterShortRepeat(mem, storage, vv, i) ==
    IF ~InBounds(mem, storage + i) THEN [ok |-> FALSE, v |-> vv, idx |-> i]
    ELSE LET cmd == MemAt(mem, storage + i)
         IN  IF cmd = 128 THEN [ok |-> TRUE, v |-> vv, idx |-> i + 1]
             ELSE IF cmd < 128
             THEN IF ~InBounds(mem, storage + i + 1 + cmd)
                  THEN [ok |-> FALSE, v |-> vv, idx |-> i + 1]
                  ELSE [ok |-> TRUE,
                        v |-> vv \o Slice(mem, storage, i + 1, cmd + 1),
                        idx |-> i + 1 + (cmd + 1)]
             ELSE LET n == overflowing_neg(cmd)
                  IN  IF ~InBounds(mem, storage + i + 1)
                      THEN [ok |-> FALSE, v |-> vv, idx |-> i + 1]
                      ELSE [ok |-> TRUE,
                            v |-> vv \o Repeat(MemAt(mem, storage + i + 1), n),
                            idx |-> i + 2]

UnpackIterStuck(mem, storage, vv, i) ==
    IF ~InBounds(mem, storage + i) THEN [ok |-> FALSE, v |-> vv, idx |-> i]
    ELSE LET cmd == MemAt(mem, storage + i)
         IN  IF cmd = 128 THEN [ok |-> TRUE, v |-> vv, idx |-> i]
             ELSE IF cmd < 128
             THEN IF ~InBounds(mem, storage + i + 1 + cmd)
                  THEN [ok |-> FALSE, v |-> vv, idx |-> i + 1]
                  ELSE [ok |-> TRUE,
                        v |-> vv \o Slice(mem, storage, i + 1, cmd + 1),
                        idx |-> i + 1 + (cmd + 1)]
             ELSE LET n == overflowing_neg(cmd)
                  IN  IF ~InBounds(mem, storage + i + 1)
                      THEN [ok |-> FALSE, v |-> vv, idx |-> i + 1]
                      ELSE [ok |-> TRUE,
                            v |-> vv \o Repeat(MemAt(mem, storage + i + 1), n + 1),
                            idx |-> i + 2]

\* The body of the "Unpackbits" loop: one command.  ok is FALSE when an
\* index is out of range (the panic); otherwise v and idx are the new values.
UnpackIter(mem, storage, vv, i) ==
    IF ~InBounds(mem, storage + i) THEN [ok |-> FALSE, v |-> vv, idx |-> i]
    ELSE LET cmd == MemAt(mem, storage + i)
         IN  IF cmd = 128 THEN [ok |-> TRUE, v |-> vv, idx |-> i + 1]
             ELSE IF cmd < 128
             THEN \* Literal copy of cmd + 1 bytes.
                  IF ~InBounds(mem, storage + i + 1 + cmd)
                  THEN [ok |-> FALSE, v |-> vv, idx |-> i + 1]
                  ELSE [ok |-> TRUE,
                        v |-> vv \o Slice(mem, storage, i + 1, cmd + 1),
                        idx |-> i + 1 + (cmd + 1)]
             ELSE \* n + 1 copies of next byte.
                  LET n == overflowing_neg(cmd)
                  IN  IF ~InBounds(mem, storage + i + 1)
                      THEN [ok |-> FALSE, v |-> vv, idx |-> i + 1]
                      ELSE [ok |-> TRUE,
                            v |-> vv \o Repeat(MemAt(mem, storage + i + 1), n + 1),
                            idx |-> i + 2]

\* while v.len() < 512 { ... }: one iteration.
UnpackStep ==
    /\ pc = "unpack"
    /\ Len(v) < BlockLen
    /\ LET r == UnpackIter(data, Storage, v, sidx)
       IN  IF r.ok
           THEN /\ v' = r.v
                /\ sidx' = r.idx
                /\ UNCHANGED <<pc, err>>
           ELSE /\ pc' = "panicked"
                /\ err' = "unpack: index out of range"
                /\ UNCHANGED <<v, sidx>>
    /\ UNCHANGED <<scen, data, offset, blocks, data_offset, idx, disk, mode,
                   block_offset, bit_index, reported, files>>

\* The loop ends; the block is returned and appended to the disk.
UnpackDone ==
    /\ pc = "unpack"
    /\ ~(Len(v) < BlockLen)
    /\ reported' = block_offset + sidx
    /\ disk' = disk \o v
    /\ idx' = idx + 1
    /\ pc' = "block"
    /\ UNCHANGED <<scen, data, err, offset, blocks, data_offset, mode,
                   block_offset, v, sidx, bit_index, files>>

\* The body of the dictionary loop: one code.  lookup is &storage[..16],
\* the stream reads &storage[16..].
ExpandIter(mem, storage, vv, bi) ==
    LET stream == storage + 16
    IN  IF ~InBounds(mem, stream + bi \div 8)
        THEN [ok |-> FALSE, v |-> vv, bit_index |-> bi]
        ELSE IF bit(mem, stream, bi) # 0
        THEN IF ~InBounds(mem, stream + (bi + 4) \div 8)
             THEN [ok |-> FALSE, v |-> vv, bit_index |-> bi]
             ELSE [ok |-> TRUE,
                   v |-> Append(vv, MemAt(mem, storage + bits(mem, stream, bi + 1, 4))),
                   bit_index |-> bi + 5]
        ELSE IF ~InBounds(mem, stream + (bi + 8) \div 8)
             THEN [ok |-> FALSE, v |-> vv, bit_index |-> bi]
             ELSE [ok |-> TRUE,
                   v |-> Append(vv, bits(mem, stream, bi + 1, 8) % 256),
                   bit_index |-> bi + 9]

\* for _ in 0..512 { ... }: one iteration (each pushes one byte).
ExpandStep ==
    /\ pc = "expand"
    /\ Len(v) < BlockLen
    /\ LET r == ExpandIter(data, Storage, v, bit_index)
       IN  IF r.ok
           THEN /\ v' = r.v
                /\ bit_index' = r.bit_index
                /\ UNCHANGED <<pc, err>>
           ELSE /\ pc' = "panicked"
                /\ err' = "bit stream: index out of range"
                /\ UNCHANGED <<v, bit_index>>
    /\ UNCHANGED <<scen, data, offset, blocks, data_offset, idx, disk, mode,
                   block_offset, sidx, reported, files>>

ExpandDone ==
    /\ pc = "expand"
    /\ ~(Len(v) < BlockLen)
    /\ reported' = block_offset + 16 + byte_idx(bit_index)
    /\ disk' = disk \o v
    /\ idx' = idx + 1
    /\ pc' = "block"
    /\ UNCHANGED <<scen, data, err, offset, blocks, data_offset, mode,
                   block_offset, v, sidx, bit_index, files>>

\* A variant of LoopDone that is true after any block (used to test C4).
LoopDoneEarly(i, table) == i >= 1

\* The table is exhausted: the for loop of extract_disk is over.
LoopDone(i, table) == i = Len(table)

\* fs::write(name, disk), then back in main: offset += 0x10000.
WriteDisk ==
    /\ pc = "block"
    /\ LoopDone(idx, blocks)
    /\ files' = [l \in DOMAIN files \cup {offset} |->
                    IF l = offset THEN disk ELSE files[l]]
    /\ offset' = offset + Stride
    /\ pc' = "scan"
    /\ UNCHANGED <<scen, data, err, blocks, data_offset, idx, disk, mode,
                   block_offset, v, sidx, bit_index, reported>>

-----------------------------------------------------------------------------
(* The inputs: ROM images built from a description (scen).  A description  *)
(* gives the ROM's length and, per 64 KiB slot, the header fields, the     *)
(* block table and what each entry's storage encodes.                      *)

\* Most entries a generated table holds.
MaxBlocks == 2
\* Most runs chosen freely at the head of a generated command stream.
MaxHead == 3
\* Most 64 KiB slots that hold a header in the two-container inputs.
MaxSlots == 2
\* Dictionary code patterns 0..MaxPat.
MaxPat == 2

\* Big-endian bytes, as read_word and read_long read them.
BE16(x) == <<(x \div 256) % 256, x % 256>>
BE32(x) == <<(x \div 16777216) % 256, (x \div 65536) % 256, (x \div 256) % 256, x % 256>>

\* The 24-bit field that stands for signed offset s (two's complement).
Raw24(s) == IF s < 0 THEN s + 16777216 ELSE s
\* The signed offset the format gives a 24-bit field.
Signed24(raw) == IF raw >= 8388608 THEN raw - 16777216 ELSE raw

\* The concatenation of a sequence of sequences (by halves).
RECURSIVE Concat(_)
Concat(ss) ==
    IF Len(ss) = 0 THEN <<>>
    ELSE IF Len(ss) = 1 THEN ss[1]
    ELSE LET h == Len(ss) \div 2
         IN  Concat(SubSeq(ss, 1, h)) \o Concat(SubSeq(ss, h + 1, Len(ss)))

\* Runs of the mode-1 grammar.
Nop == [k |-> "nop", n |-> 0, b |-> <<>>]
Lit(b) == [k |-> "lit", n |-> Len(b), b |-> b]
Rep(n, x) == [k |-> "rep", n |-> n, b |-> <<x>>]

\* The command bytes of a run: 0x80; c = n - 1 then the n bytes;
\* c with (256 - c) + 1 = n then the byte.
RunBytes(r) ==
    IF r.k = "nop" THEN <<128>>
    ELSE IF r.k = "lit" THEN <<r.n - 1>> \o r.b
    ELSE <<257 - r.n>> \o r.b

\* The bytes a run stands for.
RunPlain(r) ==
    IF r.k = "nop" THEN <<>>
    ELSE IF r.k = "lit" THEN r.b
    ELSE [i \in 1..r.n |-> r.b[1]]

StreamOf(runs) == Concat([i \in 1..Len(runs) |-> RunBytes(runs[i])])
PlainOf(runs) == Concat([i \in 1..Len(runs) |-> RunPlain(runs[i])])

Lit128 == Lit([k \in 1..128 |-> (k * 3) % 256])

RunAlphabet == {Nop, Lit(<<170>>), Lit(<<187, 204>>), Rep(2, 187), Rep(128, 204), Lit128}

Heads == UNION {[1..n -> RunAlphabet] : n \in 0..MaxHead}

\* Runs that complete head to a block, repeats of byte x: "exact" ends at
\* 512 bytes, "overrep" and "overlit" end with a full run of 128 that may
\* carry past 512.
Fill(head, kind, x) ==
    LET r == BlockLen - Len(PlainOf(head))
        full == IF r > 0 THEN r \div 128 ELSE 0
        m == IF r > 0 THEN r % 128 ELSE 0
        last == IF m = 0 THEN <<>>
                ELSE IF kind = "overrep" THEN <<Rep(128, x)>>
                ELSE IF kind = "overlit" THEN <<Lit128>>
                ELSE IF m = 1 THEN <<Lit(<<x>>)>>
                ELSE <<Rep(m, x)>>
    IN  [i \in 1..full |-> Rep(128, x)] \o last

\* Dictionary inputs: the 16-byte lookup table and 512 codes.
LookupTable == [i \in 1..16 |-> (i * 17 + 3) % 256]

Codes(pat) ==
    [k \in 1..BlockLen |->
        IF pat = 0 THEN [hit |-> TRUE, val |-> k % 16]
        ELSE IF pat = 1 THEN [hit |-> FALSE, val |-> (k * 7) % 256]
        ELSE IF k % 7 = 0 THEN [hit |-> FALSE, val |-> (k * 5 + 200) % 256]
        ELSE [hit |-> TRUE, val |-> (k * 3 + pat) % 16]]

\* x as n bits, highest first.
BitsOf(x, n) == [i \in 1..n |-> (x \div (2 ^ (n - i))) % 2]

\* Flag 1 and a 4-bit index, or flag 0 and an 8-bit literal.
CodeBits(c) == IF c.hit THEN <<1>> \o BitsOf(c.val, 4) ELSE <<0>> \o BitsOf(c.val, 8)

\* Bits packed into bytes, first bit highest, the last byte padded with 0.
PackBits(bs) ==
    [j \in 1..((Len(bs) + 7) \div 8) |->
        LET B(i) == IF 8 * (j - 1) + i <= Len(bs) THEN bs[8 * (j - 1) + i] ELSE 0
        IN  B(1) * 128 + B(2) * 64 + B(3) * 32 + B(4) * 16
            + B(5) * 8 + B(6) * 4 + B(7) * 2 + B(8)]

DictStorage(pat) ==
    LET cs == Codes(pat)
    IN  LookupTable \o PackBits(Concat([k \in 1..BlockLen |-> CodeBits(cs[k])]))

\* The block the codes stand for.
DictPlain(pat) ==
    LET cs == Codes(pat)
    IN  [k \in 1..BlockLen |-> IF cs[k].hit THEN LookupTable[cs[k].val + 1] ELSE cs[k].val]

\* A block of raw bytes and what mode 0 stores for it.
RawPlain(pat) == [k \in 1..BlockLen |-> (k * (pat + 1)) % 256]
NegStorage(pat) == [k \in 1..BlockLen |-> (256 - RawPlain(pat)[k]) % 256]

\* Table entries: mode, 24-bit offset field, and what the storage holds.
Entry(m, raw, enc, runs, pat) ==
    [mode |-> m, raw |-> raw, enc |-> enc, runs |-> runs, pat |-> pat]

\* The offset of entry i's storage: slots of 1 KiB after (sign 1) or before
\* (sign -1) the data region base.
SlotRaw(i, sign) == Raw24(sign * 1024 * i)

EZero == Entry(0, 0, "none", <<>>, 0)
ERaw(m, raw) == Entry(m, raw, "none", <<>>, 0)
ENeg(i, sign, pat) == Entry(0, SlotRaw(i, sign), "neg", <<>>, pat)
ERle(i, sign, runs) == Entry(1, SlotRaw(i, sign), "rle", runs, 0)
EDict(i, sign, pat) == Entry(2, SlotRaw(i, sign), "dict", <<>>, pat)

\* The storage bytes of an entry and the block they encode.
EntryStorage(e) ==
    IF e.enc = "neg" THEN NegStorage(e.pat)
    ELSE IF e.enc = "rle" THEN StreamOf(e.runs)
    ELSE IF e.enc = "dict" THEN DictStorage(e.pat)
    ELSE <<>>

EntryPlain(e) ==
    IF e.enc = "neg" THEN RawPlain(e.pat)
    ELSE IF e.enc = "rle" THEN PlainOf(e.runs)
    ELSE IF e.enc = "dict" THEN DictPlain(e.pat)
    ELSE <<>>

\* Containers: the header fields and the table.
Container(magic, version, block_size, disk_len, table_offset, entries) ==
    [magic |-> magic, version |-> version, block_size |-> block_size,
     disk_len |-> disk_len, table_offset |-> table_offset,
     data_offset |-> 8192, entries |-> entries]

NoContainer == Container(<<>>, 0, 0, 0, 0, <<>>)
Good(entries) == Container(EDISK_MAGIC, 1, 512, 512 * Len(entries), 512, entries)

\* A signature that differs from EDISK_MAGIC in its last byte only.
NearMagic == [EDISK_MAGIC EXCEPT ![12] = 69]

\* Bytes 128..163 of the header window.
HeaderBytes(c) ==
    BE16(c.block_size) \o BE16(c.version) \o c.magic \o BE32(c.disk_len)
    \o <<0, 0, 0, 0, 0, 0, 0, 0>> \o BE32(c.table_offset) \o BE32(c.data_offset)

TableBytes(c) ==
    Concat([i \in 1..Len(c.entries) |->
               BE32(c.entries[i].mode * 16777216 + c.entries[i].raw)])

\* The segments of the container in slot k (1-based): address -> bytes.
ContainerSegs(c, k) ==
    LET loc == (k - 1) * Stride
        stored == {i \in 1..Len(c.entries) : c.entries[i].enc # "none"}
        addr(i) == loc + c.data_offset + Signed24(c.entries[i].raw)
    IN  IF c.magic = <<>> THEN {}
        ELSE {<<loc + 128, HeaderBytes(c)>>}
             \cup (IF c.entries = <<>> THEN {}
                   ELSE {<<loc + c.table_offset, TableBytes(c)>>})
             \cup {<<addr(i), EntryStorage(c.entries[i])>> : i \in stored}

\* The ROM of a description: its segments, cut at the ROM's length.
BuildRom(s) ==
    LET pairs == UNION {ContainerSegs(s.slots[k], k) : k \in 1..Len(s.slots)}
        kept == {p \in pairs : p[1] < s.len}
        Cut(a, b) == IF a + Len(b) <= s.len THEN b ELSE SubSeq(b, 1, s.len - a)
    IN  [len |-> s.len,
         segs |-> [a \in {p[1] : p \in kept} |->
                      Cut(a, (CHOOSE p \in kept : p[1] = a)[2])]]

Scenario(len, slots) == [len |-> len, slots |-> slots]

-----------------------------------------------------------------------------
(* The inputs explored.                                                    *)

FillKinds == {"exact", "overrep", "overlit"}
FillBytes == {187, 238}

\* A zero block, then a mode-1 block of a freely chosen head and a fill.
RleInputs ==
    {Scenario(Stride, <<Good(<<EZero, ERle(2, 1, h \o Fill(h, f, x))>>)>>) :
        h \in Heads, f \in FillKinds, x \in FillBytes}

\* What entry i of a generated table may be.
EntryChoices(i) ==
    {EZero, ENeg(i, 1, 1), ENeg(i, -1, 2), ERle(i, -1, Fill(<<>>, "exact", 238)),
     EDict(i, 1, 0), ERaw(3, 0), ERaw(0, SignBit), ERaw(1, SignBit - 1),
     ERaw(0, SignBit + 1)}

RECURSIVE TablesOf(_)
TablesOf(n) ==
    IF n = 0 THEN {<<>>}
    ELSE {Append(t, e) : t \in TablesOf(n - 1), e \in EntryChoices(n)}

TableInputs ==
    {Scenario(Stride, <<Good(t)>>) : t \in UNION {TablesOf(n) : n \in 0..MaxBlocks}}

DictInputs ==
    {Scenario(Stride, <<Good(<<EDict(1, sign, pat)>>)>>) :
        sign \in {1, -1}, pat \in 0..MaxPat}

\* Header fields of every kind over an all-zero table.
HeaderInputs ==
    {Scenario(Stride, <<Container(mg, ver, bs, dl, tbl, <<>>)>>) :
        mg \in {EDISK_MAGIC, NearMagic}, ver \in {0, 1, 2}, bs \in {256, 512, 1024},
        dl \in {0, 511, 512, 1024, 1536},
        tbl \in {512, Stride - 4, Stride, Stride + 1}}

\* ROM lengths around the stride and the header window, with no container
\* and with a one-block container at 0.
LengthInputs ==
    {Scenario(l, <<NoContainer>>) :
        l \in {0, 1, 511, 512, 513, Stride, Stride + 1, Stride + 511,
               Stride + 512, 2 * Stride}}
    \cup {Scenario(l, <<Good(<<EZero>>)>>) : l \in {144, 511, 512, 513, 515, 516}}

\* ROMs that end inside or right after the storage of their only block.
Cuts == {0, 1, 2, 3, 7, 8, 15, 16, 17, 50, 130, 335, 336, 511, 512}

TruncatedRleInputs ==
    {Scenario(8192 + 1024 + cut, <<Good(<<e>>)>>) :
        e \in {ERle(1, 1, Fill(<<>>, "exact", 238)), ERle(1, 1, Fill(<<Lit128>>, "exact", 238)),
               ERle(1, 1, <<Nop, Nop, Nop>>)},
        cut \in Cuts}

TruncatedInputs ==
    TruncatedRleInputs
    \cup {Scenario(8192 + 1024 + cut, <<Good(<<e>>)>>) :
            e \in {EDict(1, 1, 0), ENeg(1, 1, 0)}, cut \in Cuts}

\* What a slot of a several-container ROM may hold.
SlotChoices ==
    {NoContainer,
     Good(<<EZero>>),
     Container(EDISK_MAGIC, 2, 512, 512, 512, <<EZero>>),
     Container(NearMagic, 1, 512, 512, 512, <<EZero>>),
     Good(<<ERle(1, 1, Fill(<<Lit(<<170>>)>>, "overrep", 238))>>),
     Good(<<EZero, ERaw(3, 0)>>)}

SlotInputs ==
    {Scenario(MaxSlots * Stride + tail, sl) :
        sl \in [1..MaxSlots -> SlotChoices], tail \in {0, 100}}

Scenarios ==
    RleInputs \cup TableInputs \cup DictInputs \cup HeaderInputs
    \cup LengthInputs \cup TruncatedInputs \cup SlotInputs

-----------------------------------------------------------------------------
(* The run: main reads the ROM and scans it.                               *)

InitRun(s) ==
    /\ scen = s
    /\ data = BuildRom(s)
    /\ pc = "scan"
    /\ err = ""
    /\ offset = 0
    /\ blocks = <<>>
    /\ data_offset = 0
    /\ idx = 0
    /\ disk = <<>>
    /\ mode = 0
    /\ block_offset = 0
    /\ v = <<>>
    /\ sidx = 0
    /\ bit_index = 0
    /\ reported = 0
    /\ files = <<>>

Init == \E s \in Scenarios : InitRun(s)

Next ==
    \/ TryExtract
    \/ MainExit
    \/ BlockStart
    \/ UnpackStep
    \/ UnpackDone
    \/ ExpandStep
    \/ ExpandDone
    \/ WriteDisk

Spec == Init /\ [][Next]_vars

\* The inputs of the termination check: ROM lengths, several containers,
\* command streams of no-ops and literals (complete, overshooting and cut
\* off by the end of the ROM) and one dictionary block.
TermHeads == UNION {[1..n -> {Nop, Lit(<<170>>)}] : n \in 0..MaxHead}

TermScenarios ==
    LengthInputs \cup SlotInputs \cup TruncatedRleInputs
    \cup {Scenario(Stride, <<Good(<<EZero, ERle(2, 1, h \o Fill(h, f, 238))>>)>>) :
            h \in TermHeads, f \in FillKinds}
    \cup {Scenario(Stride, <<Good(<<EDict(1, 1, 0)>>)>>)}

TermInit == \E s \in TermScenarios : InitRun(s)

\* The run is sequential code: it takes its next step whenever it has one.
TermSpec == TermInit /\ [][Next]_vars /\ WF_vars(Next)

-----------------------------------------------------------------------------
(* Properties.                                                             *)

\* extract_block has returned: v is the block decoded for table entry idx
\* (counted from 1) of the container at offset.
Returned == pc = "block" /\ idx > 0

\* The description of the entry v was decoded for, when the input has one.
HasEntry ==
    /\ offset \div Stride + 1 <= Len(scen.slots)
    /\ idx >= 1
    /\ idx <= Len(scen.slots[offset \div Stride + 1].entries)
CurEntry == scen.slots[offset \div Stride + 1].entries[idx]

\* The 12 signature bytes of the header window at l.
SignatureAt(l) == [i \in 1..12 |-> MemAt(data, l + 131 + i)]

\* C1: every table entry's 24-bit raw offset resolves to raw when
\* raw < 0x800000 and to raw - 0x1000000 otherwise, so 0x800000 resolves to
\* -8388608 and the resolved offset lies in [-8388608, 8388607].
C1_TwosComplementOffset ==
    [][(pc = "block" /\ idx < Len(blocks)) =>
         LET raw == blocks[idx + 1] % 16777216
         IN  /\ block_offset' = (IF raw < 8388608 THEN raw ELSE raw - 16777216)
             /\ block_offset' >= -8388608
             /\ block_offset' <= 8388607]_vars

\* C2: whenever extract_block returns, the block is exactly 512 bytes long.
C2_BlockIs512 == Returned => Len(v) = 512

\* C3: a written image is diskLength bytes long, and the bytes at
\* [512*i, 512*i + 512) are the block decoded for table entry i.
C3_ImageAligned ==
    /\ Returned => SubSeq(disk, 512 * (idx - 1) + 1, 512 * idx) = v
    /\ \A l \in DOMAIN files : Len(files[l]) = disk_len_of(data, l)

\* C4: a container that hits a fatal condition gets no file: a panic leaves
\* no file for the container being processed, every file belongs to a
\* container with a supported header and table, and a file is written only
\* once every table entry has been decoded, with the whole image.
C4_NoFileOnFatal ==
    /\ [](pc = "panicked" => offset \notin DOMAIN files)
    /\ [](\A l \in DOMAIN files :
            /\ SignatureAt(l) = EDISK_MAGIC
            /\ read_word(data, l, 130) = 1
            /\ read_word(data, l, 128) = 512
            /\ read_long(data, l, 144) % 512 = 0
            /\ Len(files[l]) >= read_long(data, l, 144)
            /\ \A i \in 1..(read_long(data, l, 144) \div 512) :
                 read_long(data, l + read_long(data, l, 156), 4 * (i - 1))
                     \div 16777216 \in {0, 1, 2})
    /\ [][files' # files =>
            /\ pc = "block"
            /\ idx = Len(blocks)
            /\ Len(blocks) = read_long(data, offset, 144) \div 512
            /\ Len(disk) >= 512 * Len(blocks)
            /\ DOMAIN files' = DOMAIN files \cup {offset}
            /\ files'[offset] = disk]_vars

\* C4's witness: a panic after a block of the container was decoded.
C4_Witness ==
    pc = "panicked" /\ Len(disk) >= 512 /\ idx >= 1 /\ offset \notin DOMAIN files

\* C5: a candidate offset with fewer than 512 bytes left in the ROM is
\* skipped: the scan goes on to the next candidate without a failure.
C5_ShortTailSkipped ==
    [][(pc = "scan" /\ offset < data.len /\ data.len - offset < 512) =>
         (pc' = "scan" /\ offset' = offset + 65536)]_vars

\* The ROM holds the end-to-end example: at 0 a container with blockSize 512,
\* version 1, diskLength 1024 and the table [(0, 0), (1, Y)], the storage at
\* Y beginning 00 AA 01 BB CC 80.
IsExample ==
    /\ data.len >= 512
    /\ SignatureAt(0) = EDISK_MAGIC
    /\ read_word(data, 0, 128) = 512
    /\ read_word(data, 0, 130) = 1
    /\ read_long(data, 0, 144) = 1024
    /\ LET table == read_long(data, 0, 156)
           e1 == read_long(data, table, 0)
           e2 == read_long(data, table, 4)
           y == read_long(data, 0, 160) + Signed24(e2 % 16777216)
       IN  /\ e1 = 0
           /\ e2 \div 16777216 = 1
           /\ [i \in 1..6 |-> MemAt(data, y + i - 1)] = <<0, 170, 1, 187, 204, 128>>

\* The commands after the example's first six complete the block exactly.
ExampleExact ==
    /\ Len(scen.slots[1].entries) = 2
    /\ Len(PlainOf(scen.slots[1].entries[2].runs)) = 512

\* C6 as stated: the example reconstructs to 1024 bytes, bytes 0-511 zero,
\* bytes 512-513 AA BB, bytes 514-515 BB BB.
C6_ExampleAsStated ==
    (IsExample /\ ExampleExact /\ 0 \in DOMAIN files) =>
        /\ Len(files[0]) = 1024
        /\ \A i \in 1..512 : files[0][i] = 0
        /\ files[0][513] = 170 /\ files[0][514] = 187
        /\ files[0][515] = 187 /\ files[0][516] = 187

\* C6 amended: the example's image has bytes 0-511 zero and bytes 512-514
\* AA BB CC (the literal run 01 BB CC copies both bytes); it is 1024 bytes
\* long when the completing runs end exactly at 512 bytes, never shorter.
C6_ExampleAmended ==
    (IsExample /\ 0 \in DOMAIN files) =>
        /\ Len(files[0]) >= 1024
        /\ ExampleExact => Len(files[0]) = 1024
        /\ \A i \in 1..512 : files[0][i] = 0
        /\ files[0][513] = 170 /\ files[0][514] = 187 /\ files[0][515] = 204

C6_Witness == IsExample /\ ExampleExact /\ 0 \in DOMAIN files /\ Len(files[0]) = 1024

\* C7: the mode-1 decode of a command stream of literal runs, repeat runs
\* and no-ops whose runs end exactly at 512 output bytes is the block the
\* stream encodes.
C7_RleRoundTrip ==
    (Returned /\ mode = 1 /\ HasEntry) =>
        ((CurEntry.enc = "rle" /\ Len(PlainOf(CurEntry.runs)) = 512)
            => v = PlainOf(CurEntry.runs))

\* C7's witness: a decoded stream with a no-op, a 128-byte literal, a
\* 2-byte repeat and a 128-byte repeat.
C7_Witness ==
    /\ Returned /\ mode = 1 /\ HasEntry
    /\ CurEntry.enc = "rle"
    /\ Len(PlainOf(CurEntry.runs)) = 512
    /\ v = PlainOf(CurEntry.runs)
    /\ {Nop, Lit128, Rep(2, 187), Rep(128, 238)}
           \subseteq {CurEntry.runs[i] : i \in 1..Len(CurEntry.runs)}

\* The least k with 8 * k >= n.
Ceil8(n) == CHOOSE k \in 0..n : 8 * k >= n /\ 8 * (k - 1) < n

\* The number of bits the first n codes of pattern pat take.
CodeBitCount(pat, n) ==
    LET cs == Codes(pat)
    IN  5 * Cardinality({k \in 1..n : cs[k].hit})
        + 9 * Cardinality({k \in 1..n : ~cs[k].hit})

\* The entry being decoded is a dictionary block of the input.
NextEntry == scen.slots[offset \div Stride + 1].entries[idx + 1]
DecodingDict ==
    /\ offset \div Stride + 1 <= Len(scen.slots)
    /\ idx + 1 <= Len(scen.slots[offset \div Stride + 1].entries)
    /\ NextEntry.enc = "dict"
    /\ mode = 2

\* C8: the mode-2 decode of a 16-byte lookup table and 512 codes packed
\* MSB-first (flag 1 + 4-bit index, or flag 0 + 8-bit literal) is the 512
\* bytes the codes stand for; the cursor advances 5 or 9 bits per output
\* byte and the reported byte offset is ceiling(cursor / 8).
C8_DictRoundTrip ==
    /\ []((Returned /\ mode = 2 /\ HasEntry) =>
            (CurEntry.enc = "dict" =>
                /\ Len(v) = 512
                /\ v = DictPlain(CurEntry.pat)
                /\ bit_index = CodeBitCount(CurEntry.pat, 512)
                /\ reported = block_offset + 16 + Ceil8(bit_index)))
    /\ [][(pc = "expand" /\ pc' = "expand") =>
            /\ Len(v') = Len(v) + 1
            /\ bit_index' - bit_index \in {5, 9}
            /\ DecodingDict =>
                 /\ bit_index = CodeBitCount(NextEntry.pat, Len(v))
                 /\ bit_index' - bit_index =
                      (IF Codes(NextEntry.pat)[Len(v) + 1].hit THEN 5 ELSE 9)]_vars

\* C8's witness: a decoded stream of index and literal codes that ends
\* inside a byte.
C8_Witness ==
    /\ Returned /\ mode = 2 /\ HasEntry
    /\ CurEntry.enc = "dict"
    /\ v = DictPlain(CurEntry.pat)
    /\ \E j, k \in 1..512 : Codes(CurEntry.pat)[j].hit /\ ~Codes(CurEntry.pat)[k].hit
    /\ bit_index % 8 # 0

\* The header at l is one try_extract rejects with a panic.
FatalHeaderAt(l) ==
    /\ SignatureAt(l) = EDISK_MAGIC
    /\ \/ read_word(data, l, 130) # 1
       \/ read_word(data, l, 128) # 512
       \/ read_long(data, l, 144) % 512 # 0

\* C9: candidates are processed one at a time in ascending order, each
\* fully before the next; a fatal condition ends the run, so nothing at a
\* higher offset is examined or written and the images written stay; a
\* signature mismatch is not fatal and the scan goes on.
C9_ScanOrder ==
    /\ [][/\ offset' >= offset
          /\ offset' # offset =>
               /\ offset' = offset + 65536
               /\ pc' = "scan"
               /\ \/ pc = "scan" /\ SignatureAt(offset) # EDISK_MAGIC
                                 /\ files' = files
                  \/ pc = "block" /\ idx = Len(blocks)
                                  /\ DOMAIN files' = DOMAIN files \cup {offset}]_vars
    /\ [][pc # "panicked" /\ pc # "done"]_vars
    /\ [][\A l \in DOMAIN files : l \in DOMAIN files' /\ files'[l] = files[l]]_vars
    /\ [](\A l \in DOMAIN files : l < offset /\ l % 65536 = 0)
    /\ [][(pc = "scan" /\ offset + 512 <= data.len /\ SignatureAt(offset) # EDISK_MAGIC)
            => (pc' = "scan" /\ offset' = offset + 65536 /\ files' = files)]_vars
    /\ [][(pc = "scan" /\ offset + 512 <= data.len /\ FatalHeaderAt(offset))
            => (pc' = "panicked" /\ offset' = offset /\ files' = files)]_vars

\* C9's witness: the run ended by a fatal condition in the second
\* container, the first container's image written.
C9_Witness == pc = "panicked" /\ offset = 65536 /\ 0 \in DOMAIN files

\* C10: every run ends, and every iteration of the mode-1 loop consumes at
\* least one byte of the ROM; the loop ends with at least 512 output bytes
\* or with an out-of-range read.
C10_Terminates ==
    /\ <>(pc \in {"done", "panicked"})
    /\ [][(pc = "unpack" /\ pc' = "unpack") => sidx' > sidx]_vars
    /\ [](pc = "unpack" => offset + data_offset + block_offset + sidx <= data.len)
    /\ [][(pc = "unpack" /\ pc' # "unpack") =>
            \/ pc' = "panicked"
            \/ pc' = "block" /\ Len(v) >= 512]_vars

\* C10's witness: a stream of no-ops and zero literals ran into the end of
\* the ROM: the loop ended by the out-of-range read.
C10_Witness ==
    /\ pc = "panicked"
    /\ err = "unpack: index out of range"
    /\ offset = 0
    /\ idx + 1 <= Len(scen.slots[1].entries)
    /\ scen.slots[1].entries[idx + 1].runs = <<Nop, Nop, Nop>>
    /\ sidx >= 3
    /\ v = <<>>
=============================================================================
